---- MODULE Spec2Model ----
(***************************************************************************)
(* The dialog core of rsipstack: DialogInner (dialog/dialog.rs) and the    *)
(* client INVITE dialog (dialog/client_dialog.rs).                         *)
(*                                                                         *)
(* One DialogInner is shared by the tasks of Tasks.  Every task runs one   *)
(* dialog operation at a time; an operation is cut into steps at each      *)
(* access to a shared field (an atomic, a mutex, the observer channel) and *)
(* at each suspension point (send, receive, reply, send_ack, the           *)
(* authentication helper), so tasks interleave exactly where threads of    *)
(* the multithreaded executor can.                                         *)
(***************************************************************************)
EXTENDS Integers, Sequences, FiniteSets, TLC

\* ------------------------------------------------------------------ bounds
MaxOps == 3         \* operations invoked on the dialog, in total
MaxRecv == 3        \* messages delivered by transactions, in total
MaxSeq == 2         \* largest CSeq an inbound request carries
InitialCSeq == 1    \* CSeq of the INVITE the dialog is created from
MaxHeaders == 3     \* headers in a header list

\* the tasks sharing the dialog
Tasks == {1, 2}

\* ------------------------------------------------------------------ values
None == 0           \* Option::None of a status code
NoTag == ""         \* the empty to_tag of a client dialog before an answer
Tags == {"xyz"}     \* to_tags a peer assigns
OriginalUri == "sip:bob@example.com"

\* status codes the INVITE transaction delivers (rsip::StatusCode)
InviteCodes == {100, 180, 200, 401, 407, 486}

\* status codes the transaction of a mid-dialog request delivers
RequestCodes == {100, 180, 200, 401}

\* methods of inbound requests (rsip::Method)
InboundMethods == {"INVITE", "BYE", "INFO", "OPTIONS"}

\* rsip::StatusCode::kind()
StatusCodeKind(c) ==
    IF c \in 100..199 THEN "Provisional"
    ELSE IF c \in 200..299 THEN "Successful"
    ELSE IF c \in 300..399 THEN "Redirection"
    ELSE IF c \in 400..499 THEN "RequestFailure"
    ELSE IF c \in 500..599 THEN "ServerFailure"
    ELSE IF c \in 600..699 THEN "GlobalFailure"
    ELSE "Other"

\* a response: its status code and its header block (the To tag it carries)
Response(c, t) == [status_code |-> c, headers |-> [to_tag |-> t]]
NoResp == Response(None, NoTag)
NoHeaders == [to_tag |-> NoTag]

\* what a transaction's receive() yields: responses, or an inbound request
Responses(codes) ==
    {Response(c, NoTag) : c \in codes \ {200}} \cup {Response(200, t) : t \in Tags}
RequestMsg == [status_code |-> -1, headers |-> NoHeaders]
InviteMessages == Responses(InviteCodes) \cup {RequestMsg}
RequestMessages == Responses(RequestCodes) \cup {RequestMsg}

\* DialogState: the variant, the DialogId's to_tag, the status code it carries
DialogState(k, tag, c) == [kind |-> k, to_tag |-> tag, code |-> c]
NoState == DialogState("none", NoTag, None)

\* the side-channel variants, had the match of transition() forgotten Info
SideChannel_without_Info == {"Updated", "Notify"}

\* the side-channel variants of DialogState
SideChannel == {"Updated", "Notify", "Info"}

\* a request on the wire
Request(m, cseq, auth, hdrs) ==
    [method |-> m, uri |-> OriginalUri, cseq |-> cseq, auth |-> auth, headers |-> hdrs]

VARIABLES
    state,          \* DialogInner.state
    id,             \* DialogInner.id (its to_tag)
    to,             \* DialogInner.to (the tag of its To header)
    local_seq,      \* DialogInner.local_seq
    remote_seq,     \* DialogInner.remote_seq
    credential,     \* DialogInner.credential is Some
    headers,        \* a header list (rsip::Headers) push_front and header_pop! work on
    header_op,      \* the last operation applied to headers, and what it was applied to
    holder,         \* for each mutex of DialogInner, the task that holds its guard (0: none)
    running,        \* per task: the lock events of the operation it runs, and its place in them
    closed,         \* the receiver of state_sender was dropped
    observed,       \* everything sent on state_sender, in order
    emitted,        \* values increment_local_seq has returned, in order
    dispatched,     \* remote CSeqs handed to a method handler, in order
    nops,           \* operations invoked so far
    nrecv,          \* messages delivered so far
    tasks           \* per task: the operation it runs and its locals

vars == <<state, id, to, local_seq, remote_seq, credential, headers, header_op, holder, running, closed, observed,
          emitted, dispatched, nops, nrecv, tasks>>

shared == <<state, id, to, local_seq, remote_seq, credential, headers, header_op, holder, running, closed, observed,
            emitted, dispatched>>

\* a task that runs nothing
IdleTask ==
    [op |-> "none", pc |-> "idle", ret |-> "none", arg |-> NoState,
     auth_sent |-> FALSE, method |-> "none", cseq |-> 0, new_seq |-> 0,
     dialog_id |-> NoTag, final_response |-> NoResp, to |-> NoTag,
     rx |-> <<>>, sent |-> <<>>, reply |-> None, result |-> "none"]

\* DialogInner::new
new ==
    /\ state = DialogState("Calling", NoTag, None)
    /\ id = [to_tag |-> NoTag]
    /\ to = NoTag
    /\ local_seq = InitialCSeq
    /\ remote_seq = InitialCSeq
    /\ credential \in BOOLEAN
    /\ closed = FALSE
    /\ observed = <<>>
    /\ emitted = <<>>
    /\ dispatched = <<>>
    /\ nops = 0
    /\ nrecv = 0
    /\ tasks = [t \in Tasks |-> IdleTask]

\* no operation on a header list yet
NoHeaderOp == [op |-> "none", kind |-> "none", before |-> <<>>, destination |-> "none"]

\* the mutexes of DialogInner
Mutexes == {"id", "state", "to"}

\* no task holds a mutex, no task is inside an operation
NoLocks ==
    /\ holder = [m \in Mutexes |-> 0]
    /\ running = [t \in Tasks |-> [op |-> "none", path |-> <<>>, at |-> 1]]

\* a new dialog; no header list is worked on
Init ==
    /\ new
    /\ headers = <<>>
    /\ header_op = NoHeaderOp
    /\ NoLocks

\* DialogInner::is_confirmed
is_confirmed == state.kind = "Confirmed"

\* DialogInner::get_local_seq
get_local_seq == local_seq

\* a task is free to take a new operation; tasks are interchangeable, so the
\* operation goes to the first free one
Idle(t) == tasks[t].pc \in {"idle", "done"}
Free(t) == Idle(t) /\ nops < MaxOps /\ \A u \in Tasks : u < t => ~Idle(u)

\* the task's record at the start of operation op
Begin(op) == [IdleTask EXCEPT !.op = op]

\* the operation returns r ("Ok" or "Err"); what it returned stays with the
\* task, its other locals are dropped
Finish(tk, r) ==
    [IdleTask EXCEPT !.op = tk.op, !.pc = "done", !.result = r, !.rx = tk.rx,
                     !.sent = tk.sent, !.reply = tk.reply, !.method = tk.method,
                     !.cseq = tk.cseq,
                     !.dialog_id = tk.dialog_id, !.final_response = tk.final_response]

\* the task calls transition(st) and goes on at ret when it returns Ok
CallTransition(tk, st, ret) == [tk EXCEPT !.pc = "t_send", !.arg = st, !.ret = ret]

\* ---------------------------------------------------------------- transition
\* the caller's continuation once transition() or do_request() has returned Ok:
\* bye() goes on to Terminated(resp.status), info() to the Info event, cancel()
\* is done; the loops of process_invite and do_request go on receiving or break
DoRequestReturns(tk, code) ==
    IF tk.op = "bye"
        THEN CallTransition(tk, DialogState("Terminated", id.to_tag, code), "op_done")
    ELSE IF tk.op = "info"
        THEN CallTransition(tk, DialogState("Info", id.to_tag, None), "op_done")
    ELSE Finish(tk, "Ok")

After(tk) ==
    IF tk.ret \in {"op_done", "pi_done"} THEN Finish(tk, "Ok")
    ELSE IF tk.ret = "dr_none" THEN DoRequestReturns(tk, None)
    ELSE [tk EXCEPT !.pc = tk.ret]

\* transition_send, had it gone on to the swap without sending
transition_without_send(t) ==
    /\ tasks[t].pc = "t_send"
    /\ tasks' = [tasks EXCEPT ![t] =
            IF @.arg.kind \in SideChannel THEN After(@) ELSE [@ EXCEPT !.pc = "t_swap"]]
    /\ UNCHANGED <<shared, nops, nrecv>>

\* transition(), its first half: state_sender.send(state.clone())?, and the
\* early return of the side-channel variants
transition_send(t) ==
    /\ tasks[t].pc = "t_send"
    /\ IF closed
        THEN /\ tasks' = [tasks EXCEPT ![t] = Finish(@, "Err")]
             /\ UNCHANGED observed
        ELSE /\ observed' = Append(observed, tasks[t].arg)
             /\ tasks' = [tasks EXCEPT ![t] =
                    IF @.arg.kind \in SideChannel THEN After(@)
                    ELSE [@ EXCEPT !.pc = "t_swap"]]
    /\ UNCHANGED <<state, id, to, local_seq, remote_seq, credential, headers, header_op, holder, running, closed,
                   emitted, dispatched, nops, nrecv>>

\* transition(), its second half: *self.state.lock() = state
transition_swap(t) ==
    /\ tasks[t].pc = "t_swap"
    /\ state' = tasks[t].arg
    /\ tasks' = [tasks EXCEPT ![t] = After(@)]
    /\ UNCHANGED <<id, to, local_seq, remote_seq, credential, headers, header_op, holder, running, closed, observed,
                   emitted, dispatched, nops, nrecv>>

\* the consumer drops the DialogStateReceiver
drop_receiver ==
    /\ ~closed
    /\ closed' = TRUE
    /\ UNCHANGED <<state, id, to, local_seq, remote_seq, credential, headers, header_op, holder, running, observed,
                   emitted, dispatched, nops, nrecv, tasks>>

\* ------------------------------------------------------ increment_local_seq
\* fetch_add, had it been given 2
fetch_add_two(seq) == seq + 2

\* AtomicU32::fetch_add(1, Relaxed): the value it stores
fetch_add(seq) == seq + 1

\* self.local_seq.fetch_add(1, Relaxed)
fetch_add_local_seq(t) ==
    /\ tasks[t].pc = "inc_add"
    /\ local_seq' = fetch_add(local_seq)
    /\ tasks' = [tasks EXCEPT ![t].pc = "inc_load"]
    /\ UNCHANGED <<state, id, to, remote_seq, credential, headers, header_op, holder, running, closed, observed,
                   emitted, dispatched, nops, nrecv>>

\* self.local_seq.load(Relaxed), the value increment_local_seq returns
load_local_seq(t) ==
    /\ tasks[t].pc = "inc_load"
    /\ emitted' = Append(emitted, local_seq)
    /\ tasks' = [tasks EXCEPT ![t] = After([@ EXCEPT !.new_seq = local_seq])]
    /\ UNCHANGED <<state, id, to, local_seq, remote_seq, credential, headers, header_op, holder, running, closed, observed,
                   dispatched, nops, nrecv>>

\* a direct call of the public increment_local_seq
increment_local_seq(t) ==
    /\ Free(t)
    /\ nops >= 1
    /\ nops' = nops + 1
    /\ tasks' = [tasks EXCEPT ![t] =
            [Begin("increment_local_seq") EXCEPT !.pc = "inc_add", !.ret = "op_done"]]
    /\ UNCHANGED <<shared, nrecv>>

\* ----------------------------------------------------------- process_invite
\* the task puts a request on the wire
Sends(tk, req) == [tk EXCEPT !.sent = Append(@, req)]

\* process_invite, its entry: transition(Calling(self.id()))
process_invite(t) ==
    /\ Free(t)
    /\ nops = 0
    /\ nops' = nops + 1
    /\ tasks' = [tasks EXCEPT ![t] =
            CallTransition(Begin("process_invite"),
                           DialogState("Calling", id.to_tag, None), "pi_send")]
    /\ UNCHANGED <<shared, nrecv>>

\* tx.send().await? of the initial INVITE
invite_send(t) ==
    /\ tasks[t].pc = "pi_send"
    /\ \E ok \in BOOLEAN :
        tasks' = [tasks EXCEPT ![t] =
            IF ok
                THEN [Sends(@, Request("INVITE", InitialCSeq, FALSE, NoHeaders))
                        EXCEPT !.pc = "pi_recv", !.dialog_id = id.to_tag]
                ELSE Finish(@, "Err")]
    /\ UNCHANGED <<shared, nops, nrecv>>

\* OnInviteChallenge, had it not looked at auth_sent
OnInviteChallenge_retries(tk, c) ==
    IF credential
        THEN [tk EXCEPT !.auth_sent = TRUE, !.pc = "inc_add", !.ret = "pi_auth"]
        ELSE CallTransition([tk EXCEPT !.auth_sent = TRUE],
                            DialogState("Terminated", id.to_tag, c), "pi_recv")

\* process_invite on a 401 or 407: terminate and break after a retry, else
\* retry with the credential, else terminate and go on
OnInviteChallenge(tk, c) ==
    LET terminated == DialogState("Terminated", id.to_tag, c)
    IN  IF tk.auth_sent
            THEN CallTransition(tk, terminated, "pi_done")
        ELSE IF credential
            THEN [tk EXCEPT !.auth_sent = TRUE, !.pc = "inc_add", !.ret = "pi_auth"]
        ELSE CallTransition([tk EXCEPT !.auth_sent = TRUE], terminated, "pi_recv")

\* the match of process_invite on one received message
OnInviteMessage(tk, msg) ==
    LET c == msg.status_code
        terminated == DialogState("Terminated", id.to_tag, c)
    IN  IF msg = RequestMsg THEN tk
        ELSE IF c = 100
            THEN CallTransition(tk, DialogState("Trying", id.to_tag, None), "pi_recv")
        ELSE IF c \in {180, 183}
            THEN CallTransition(tk, DialogState("Early", id.to_tag, c), "pi_recv")
        ELSE IF c = 200
            THEN [tk EXCEPT !.pc = "pi_ack", !.dialog_id = msg.headers.to_tag,
                            !.final_response = msg]
        ELSE IF c \in {603, 487}
            THEN CallTransition(tk, terminated, "pi_recv")
        ELSE IF c \in {407, 401}
            THEN OnInviteChallenge(tk, c)
        ELSE IF StatusCodeKind(c) \in
                    {"Redirection", "RequestFailure", "ServerFailure", "GlobalFailure"}
            THEN CallTransition(tk, terminated, "pi_recv")
        ELSE tk

\* tx.receive().await in process_invite: a message, or the end of the stream
invite_receive(t) ==
    /\ tasks[t].pc = "pi_recv"
    /\ \/ /\ nrecv < MaxRecv
          /\ \E msg \in InviteMessages :
                tasks' = [tasks EXCEPT ![t] =
                    OnInviteMessage([@ EXCEPT !.rx = Append(@, msg.status_code)], msg)]
          /\ nrecv' = nrecv + 1
       \/ /\ tasks' = [tasks EXCEPT ![t] = Finish(@, "Ok")]
          /\ UNCHANGED nrecv
    /\ UNCHANGED <<shared, nops>>

\* the request handle_client_authenticate rebuilds: the original one with the
\* new CSeq and the Authorization header
handle_client_authenticate(new_seq, method) == Request(method, new_seq, TRUE, NoHeaders)

\* handle_client_authenticate(..).await? and tx.send().await? of the rebuilt
\* transaction, in process_invite
invite_authenticate(t) ==
    /\ tasks[t].pc = "pi_auth"
    /\ \E ok \in BOOLEAN :
        tasks' = [tasks EXCEPT ![t] =
            IF ok
                THEN [Sends(@, handle_client_authenticate(@.new_seq, "INVITE"))
                        EXCEPT !.pc = "pi_recv"]
                ELSE Finish(@, "Err")]
    /\ UNCHANGED <<shared, nops, nrecv>>

\* Ack, had it not taken the headers of the response
Ack_without_headers(resp) == Request("ACK", 0, FALSE, NoHeaders)

\* the ACK process_invite builds for a 200
Ack(resp) == [Request("ACK", 0, FALSE, resp.headers) EXCEPT !.uri = OriginalUri]

\* invite_send_ack, had it gone to Confirmed whatever send_ack returned
invite_confirm_without_ack(t) ==
    /\ tasks[t].pc = "pi_ack"
    /\ tasks' = [tasks EXCEPT ![t] =
            CallTransition(@, DialogState("Confirmed", @.dialog_id,
                                          @.final_response.status_code), "pi_done")]
    /\ UNCHANGED <<shared, nops, nrecv>>

\* tx.send_ack(ack).await?, then transition(Confirmed(dialog_id, resp)) and break
invite_send_ack(t) ==
    /\ tasks[t].pc = "pi_ack"
    /\ \E ok \in BOOLEAN :
        tasks' = [tasks EXCEPT ![t] =
            IF ok
                THEN CallTransition(Sends(@, Ack(@.final_response)),
                        DialogState("Confirmed", @.dialog_id,
                                    @.final_response.status_code), "pi_done")
                ELSE Finish(@, "Err")]
    /\ UNCHANGED <<shared, nops, nrecv>>

\* -------------------------------------------------------- update_remote_tag
\* tags update_remote_tag is called with
RemoteTags == {"xyz", "abc"}

\* update_remote_tag(tag): the to_tag of the id and the tag of the To header are
\* set to tag, whatever they were
update_remote_tag(t, tag) ==
    /\ Free(t)
    /\ nops' = nops + 1
    /\ id' = [id EXCEPT !.to_tag = tag]
    /\ to' = tag
    /\ tasks' = [tasks EXCEPT ![t] = Finish(Begin("update_remote_tag"), "Ok")]
    /\ UNCHANGED <<state, local_seq, remote_seq, credential, headers, header_op, holder, running, closed, observed,
                   emitted, dispatched, nrecv>>

\* ------------------------------------------------------------- make_request
\* make_request, the CSeq it takes: self.remote_seq.fetch_add(1, Relaxed) of
\* increment_remove_seq
fetch_add_remote_seq(t) ==
    /\ tasks[t].pc = "mr_add"
    /\ remote_seq' = fetch_add(remote_seq)
    /\ tasks' = [tasks EXCEPT ![t].pc = "mr_load"]
    /\ UNCHANGED <<state, id, to, local_seq, credential, headers, header_op, holder, running, closed, observed,
                   emitted, dispatched, nops, nrecv>>

\* self.remote_seq.load(Relaxed) of increment_remove_seq: the CSeq of the
\* request; and the rest of make_request, which copies self.to into the To header
load_remote_seq(t) ==
    /\ tasks[t].pc = "mr_load"
    /\ tasks' = [tasks EXCEPT ![t] =
            [@ EXCEPT !.cseq = remote_seq, !.to = to, !.pc = "dr_send"]]
    /\ UNCHANGED <<shared, nops, nrecv>>

\* --------------------------------------------------------------- do_request
\* tx.send().await? of the request of a new client transaction
request_send(t) ==
    /\ tasks[t].pc = "dr_send"
    /\ \E ok \in BOOLEAN :
        tasks' = [tasks EXCEPT ![t] =
            IF ok
                THEN [Sends(@, Request(@.method, @.cseq, FALSE, [to_tag |-> @.to]))
                        EXCEPT !.pc = "dr_recv", !.auth_sent = FALSE]
                ELSE Finish(@, "Err")]
    /\ UNCHANGED <<shared, nops, nrecv>>

\* RetrySeq, had it incremented local_seq for every method
RetrySeq_increments(tk) == [tk EXCEPT !.pc = "inc_add", !.ret = "dr_auth"]

\* the CSeq of the authenticated retry of do_request: CANCEL keeps local_seq
RetrySeq(tk) ==
    IF tk.method = "CANCEL"
        THEN [tk EXCEPT !.new_seq = get_local_seq, !.pc = "dr_auth"]
        ELSE [tk EXCEPT !.pc = "inc_add", !.ret = "dr_auth"]

\* the match of do_request on one received message
OnRequestMessage(tk, msg) ==
    LET c == msg.status_code
        terminated == DialogState("Terminated", id.to_tag, c)
    IN  IF msg = RequestMsg THEN DoRequestReturns(tk, None)
        ELSE IF c = 100 THEN tk
        ELSE IF c \in {180, 183}
            THEN CallTransition(tk, DialogState("Early", id.to_tag, c), "dr_recv")
        ELSE IF c \in {407, 401}
            THEN IF tk.auth_sent
                    THEN CallTransition(tk, terminated, "dr_none")
                 ELSE IF credential
                    THEN RetrySeq([tk EXCEPT !.auth_sent = TRUE])
                 ELSE CallTransition([tk EXCEPT !.auth_sent = TRUE], terminated, "dr_recv")
        ELSE DoRequestReturns(tk, c)

\* tx.receive().await in do_request: a message, or the end of the stream
request_receive(t) ==
    /\ tasks[t].pc = "dr_recv"
    /\ \/ /\ nrecv < MaxRecv
          /\ \E msg \in RequestMessages :
                tasks' = [tasks EXCEPT ![t] =
                    OnRequestMessage([@ EXCEPT !.rx = Append(@, msg.status_code)], msg)]
          /\ nrecv' = nrecv + 1
       \/ /\ tasks' = [tasks EXCEPT ![t] = DoRequestReturns(@, None)]
          /\ UNCHANGED nrecv
    /\ UNCHANGED <<shared, nops>>

\* handle_client_authenticate(..).await? and tx.send().await? of the rebuilt
\* transaction, in do_request
request_authenticate(t) ==
    /\ tasks[t].pc = "dr_auth"
    /\ \E ok \in BOOLEAN :
        tasks' = [tasks EXCEPT ![t] =
            IF ok
                THEN [Sends(@, handle_client_authenticate(@.new_seq, @.method))
                        EXCEPT !.pc = "dr_recv"]
                ELSE Finish(@, "Err")]
    /\ UNCHANGED <<shared, nops, nrecv>>

\* ------------------------------------------------------ bye, info and cancel
\* what bye() and info() do after is_confirmed(): return, or make_request
Confirmed_only(op, method) ==
    IF is_confirmed
        THEN [Begin(op) EXCEPT !.method = method, !.pc = "mr_add"]
        ELSE Finish(Begin(op), "Ok")

bye(t) ==
    /\ Free(t)
    /\ nops >= 1
    /\ nops' = nops + 1
    /\ tasks' = [tasks EXCEPT ![t] = Confirmed_only("bye", "BYE")]
    /\ UNCHANGED <<shared, nrecv>>

info(t) ==
    /\ Free(t)
    /\ nops >= 1
    /\ nops' = nops + 1
    /\ tasks' = [tasks EXCEPT ![t] = Confirmed_only("info", "INFO")]
    /\ UNCHANGED <<shared, nrecv>>

\* the CSeq cancel() gives its request
cancel_seq == get_local_seq

cancel(t) ==
    /\ Free(t)
    /\ nops >= 1
    /\ nops' = nops + 1
    /\ tasks' = [tasks EXCEPT ![t] =
            [Begin("cancel") EXCEPT !.method = "CANCEL", !.cseq = cancel_seq,
                                    !.pc = "dr_send"]]
    /\ UNCHANGED <<shared, nrecv>>

\* ------------------------------------------------------------------- handle
\* Stale, had the comparison been written the other way round
Stale_reversed(cseq) == cseq > remote_seq

\* the CSeq filter of handle(): the request is older than remote_seq
Stale(cseq) == cseq < remote_seq

\* handle(tx), its entry: the CSeq of the request against remote_seq
handle(t, cseq) ==
    /\ Free(t)
    /\ nops >= 1
    /\ nops' = nops + 1
    /\ tasks' = [tasks EXCEPT ![t] =
            [Begin("handle") EXCEPT !.cseq = cseq,
                !.pc = IF Stale(cseq) THEN "h_reply500" ELSE "h_store"]]
    /\ UNCHANGED <<shared, nrecv>>

\* tx.reply(status).await?
Replies(tk, status, ok) == IF ok THEN [tk EXCEPT !.reply = status] ELSE tk

\* tx.reply(ServerInternalError).await?; return Ok(())
reply_stale(t) ==
    /\ tasks[t].pc = "h_reply500"
    /\ \E ok \in BOOLEAN :
        tasks' = [tasks EXCEPT ![t] =
            Finish(Replies(@, 500, ok), IF ok THEN "Ok" ELSE "Err")]
    /\ UNCHANGED <<shared, nops, nrecv>>

\* self.inner.remote_seq.store(cseq, Relaxed)
store_remote_seq(t) ==
    /\ tasks[t].pc = "h_store"
    /\ remote_seq' = tasks[t].cseq
    /\ tasks' = [tasks EXCEPT ![t].pc = "h_dispatch"]
    /\ UNCHANGED <<state, id, to, local_seq, credential, headers, header_op, holder, running, closed, observed,
                   emitted, dispatched, nops, nrecv>>

\* the match of handle() on the method, under is_confirmed()
Dispatch(tk, method) ==
    IF method = "INVITE" THEN Finish([tk EXCEPT !.method = method], "Ok")
    ELSE IF method = "BYE"
        THEN CallTransition([tk EXCEPT !.method = method],
                DialogState("Terminated", id.to_tag, None), "h_reply200")
    ELSE IF method = "INFO"
        THEN CallTransition([tk EXCEPT !.method = method],
                DialogState("Info", id.to_tag, None), "h_reply200")
    ELSE [tk EXCEPT !.method = method, !.pc = "h_reply405"]

\* is_confirmed() in handle(), and the match on the method of the request (the
\* method is read here for the first time)
dispatch(t) ==
    /\ tasks[t].pc = "h_dispatch"
    /\ IF is_confirmed
        THEN \E method \in InboundMethods :
                /\ tasks' = [tasks EXCEPT ![t] = Dispatch(@, method)]
                /\ dispatched' = IF method \in {"BYE", "INFO"}
                                    THEN Append(dispatched, tasks[t].cseq)
                                    ELSE dispatched
        ELSE /\ tasks' = [tasks EXCEPT ![t] = Finish(@, "Ok")]
             /\ UNCHANGED dispatched
    /\ UNCHANGED <<state, id, to, local_seq, remote_seq, credential, headers, header_op, holder, running, closed, observed,
                   emitted, nops, nrecv>>

\* tx.reply(OK).await? of handle_bye and handle_info
reply_ok(t) ==
    /\ tasks[t].pc = "h_reply200"
    /\ \E ok \in BOOLEAN :
        tasks' = [tasks EXCEPT ![t] =
            Finish(Replies(@, 200, ok), IF ok THEN "Ok" ELSE "Err")]
    /\ UNCHANGED <<shared, nops, nrecv>>

\* tx.reply(MethodNotAllowed).await?; return Err(DialogError)
reply_not_allowed(t) ==
    /\ tasks[t].pc = "h_reply405"
    /\ \E ok \in BOOLEAN :
        tasks' = [tasks EXCEPT ![t] = Finish(Replies(@, 405, ok), "Err")]
    /\ UNCHANGED <<shared, nops, nrecv>>

\* ----------------------------------------------------------------- rsip_ext
\* a header (rsip::Header): its kind and its value
HeaderKinds == {"Via", "Route"}
HeaderValues == {"SIP/2.0/TCP", "SIP/2.0/UDP"}
Header(kind, value) == [kind |-> kind, value |-> value]
Headers == {Header(k, v) : k \in HeaderKinds, v \in HeaderValues}

\* the header lists of at most MaxHeaders headers
HeaderLists == UNION {[1..n -> Headers] : n \in 0..MaxHeaders}

\* RsipHeadersExt::push_front: the headers collected, header inserted at 0
push_front(hs, header) == <<header>> \o hs

\* the closure header_pop! gives to retain: the first header of the kind is
\* dropped and clears the flag, every other header is kept
RECURSIVE retain(_, _, _)
retain(hs, first, kind) ==
    IF hs = <<>> THEN <<>>
    ELSE IF first /\ Head(hs).kind = kind
        THEN retain(Tail(hs), FALSE, kind)
        ELSE <<Head(hs)>> \o retain(Tail(hs), first, kind)

\* header_pop, had the closure not cleared the flag
header_pop_every(hs, kind) == SelectSeq(hs, LAMBDA h : h.kind # kind)

\* header_pop!(hs, kind)
header_pop(hs, kind) == retain(hs, TRUE, kind)

\* request.route_header(): the value of the first Route header, if any
route_header(hs) ==
    IF \E i \in DOMAIN hs : hs[i].kind = "Route"
        THEN SelectSeq(hs, LAMBDA h : h.kind = "Route")[1].value
        ELSE "none"

\* the dialog, which the operations on header lists leave alone
dialog == <<state, id, to, local_seq, remote_seq, credential, closed, observed,
            emitted, dispatched, nops, nrecv, tasks, holder, running>>

\* headers.push_front(header)
headers_push_front(header) ==
    /\ header_op.op = "none"
    /\ headers' = push_front(headers, header)
    /\ header_op' = [NoHeaderOp EXCEPT !.op = "push_front", !.kind = header.kind,
                                       !.before = headers]
    /\ UNCHANGED dialog

\* header_pop!(headers, kind) on a list as it is
headers_header_pop(kind) ==
    /\ header_op.op = "none"
    /\ headers' = header_pop(headers, kind)
    /\ header_op' = [NoHeaderOp EXCEPT !.op = "header_pop", !.kind = kind,
                                       !.before = headers]
    /\ UNCHANGED dialog

\* test_rsip_headers_ext: header_pop! of the kind push_front has just put in front
headers_pop_pushed ==
    /\ header_op.op = "push_front"
    /\ headers' = header_pop(headers, header_op.kind)
    /\ header_op' = [header_op EXCEPT !.op = "push_front_pop"]
    /\ UNCHANGED dialog

\* do_request, its first lines: the destination from the first Route header,
\* then header_pop!(request.headers, Header::Route)
do_request_header_pop ==
    /\ header_op.op = "none"
    /\ headers' = header_pop(headers, "Route")
    /\ header_op' = [op |-> "do_request", kind |-> "Route", before |-> headers,
                     destination |-> route_header(headers)]
    /\ UNCHANGED dialog

\* -------------------------------------------------------------- the mutexes
\* what an operation does to the mutexes, in program order: it takes a guard,
\* drops a guard, or suspends at an await
Lock(m) == [event |-> "lock", on |-> m]
Unlock(m) == [event |-> "unlock", on |-> m]
Await(point) == [event |-> "await", on |-> point]

\* self.m.lock().unwrap() as a temporary of one statement that calls nothing
\* else: the guard is dropped at the end of the statement
Guarded(m) == <<Lock(m), Unlock(m)>>

\* DialogInner::is_confirmed
is_confirmed_locks == Guarded("state")

\* the id of the dialog, cloned from under its mutex (ClientInviteDialog::id,
\* Dialog::id)
id_locks == Guarded("id")

\* update_remote_tag: the id, then the To header read, written and logged
update_remote_tag_locks ==
    Guarded("id") \o Guarded("to") \o Guarded("to") \o Guarded("to")

\* make_request: the Call-ID from the id, then the To header
make_request_locks == Guarded("id") \o Guarded("to")

\* make_response: the to_tag from the id, for a To header without a tag
make_response_locks == Guarded("id")

\* transition_locks, had transition() read the id of the dialog for its log line
transition_locks_reads_id == <<Lock("state")>> \o Guarded("id") \o <<Unlock("state")>>

\* transition() on a persistent state: old_state is held to the end of the
\* function (the send before it, on an unbounded channel, does not suspend)
transition_locks == Guarded("state")

\* do_request, the paths through its loop: a final response or the end of the
\* stream; a 180, where the guard of id is a temporary of the statement that
\* calls transition(); a challenge without credential; a challenge, the retry
\* and a second challenge
do_request_locks ==
    LET sent == <<Await("send"), Await("receive")>>
    IN  { sent,
          sent \o <<Lock("id")>> \o transition_locks \o <<Unlock("id"), Await("receive")>>,
          sent \o Guarded("id") \o transition_locks \o <<Await("receive")>>,
          sent \o Guarded("id")
               \o <<Await("handle_client_authenticate"), Await("send"), Await("receive")>>
               \o Guarded("id") \o transition_locks }

\* handle, its paths: the span and the trace line, then a stale request; a
\* dialog not Confirmed; INVITE; BYE; INFO (a side-channel transition takes no
\* mutex); another method
handle_locks ==
    LET entry == id_locks \o Guarded("state")
    IN  { entry \o <<Await("reply")>>,
          entry \o is_confirmed_locks,
          entry \o is_confirmed_locks \o id_locks \o transition_locks \o <<Await("reply")>>,
          entry \o is_confirmed_locks \o id_locks \o <<Await("reply")>>,
          entry \o is_confirmed_locks \o <<Await("reply")>> \o id_locks }

\* the operations that take mutexes, and the paths of each
LockPaths ==
    [update_remote_tag |-> {update_remote_tag_locks},
     make_request |-> {make_request_locks},
     make_response |-> {make_response_locks},
     transition |-> {transition_locks},
     do_request |-> do_request_locks,
     handle |-> handle_locks]

\* the event task t is at, if it is inside an operation and not at its end
AtEvent(t) == running[t].op # "none" /\ running[t].at <= Len(running[t].path)
Event(t) == running[t].path[running[t].at]
Advance(t) == [running EXCEPT ![t].at = @ + 1]

\* the dialog but for nops, which the calls count
locked_dialog == <<state, id, to, local_seq, remote_seq, credential, closed, observed,
                   emitted, dispatched, nrecv, tasks, headers, header_op>>

\* task t calls an operation and takes one of its paths
lock_call(t, op, path) ==
    /\ running[t].op = "none"
    /\ nops < MaxOps
    /\ nops' = nops + 1
    /\ running' = [running EXCEPT ![t] = [op |-> op, path |-> path, at |-> 1]]
    /\ UNCHANGED <<locked_dialog, holder>>

\* Mutex::lock: the task goes on when no task holds the guard
lock_acquire(t) ==
    /\ AtEvent(t) /\ Event(t).event = "lock"
    /\ holder[Event(t).on] = 0
    /\ holder' = [holder EXCEPT ![Event(t).on] = t]
    /\ running' = Advance(t)
    /\ UNCHANGED <<locked_dialog, nops>>

\* the drop of a MutexGuard
lock_release(t) ==
    /\ AtEvent(t) /\ Event(t).event = "unlock"
    /\ holder' = [holder EXCEPT ![Event(t).on] = 0]
    /\ running' = Advance(t)
    /\ UNCHANGED <<locked_dialog, nops>>

\* an await: the task is suspended and resumed
suspension_point(t) ==
    /\ AtEvent(t) /\ Event(t).event = "await"
    /\ running' = Advance(t)
    /\ UNCHANGED <<locked_dialog, nops, holder>>

\* the operation returns
lock_return(t) ==
    /\ running[t].op # "none" /\ running[t].at > Len(running[t].path)
    /\ running' = [running EXCEPT ![t] = [op |-> "none", path |-> <<>>, at |-> 1]]
    /\ UNCHANGED <<locked_dialog, nops, holder>>

\* ------------------------------------------------------------ specification
Step(t) ==
        \/ process_invite(t)
        \/ invite_send(t)
        \/ invite_receive(t)
        \/ invite_authenticate(t)
        \/ invite_send_ack(t)
        \/ bye(t)
        \/ info(t)
        \/ cancel(t)
        \/ fetch_add_remote_seq(t)
        \/ load_remote_seq(t)
        \/ request_send(t)
        \/ request_receive(t)
        \/ request_authenticate(t)
        \/ \E cseq \in 0..MaxSeq : handle(t, cseq)
        \/ reply_stale(t)
        \/ store_remote_seq(t)
        \/ dispatch(t)
        \/ reply_ok(t)
        \/ reply_not_allowed(t)
        \/ increment_local_seq(t)
        \/ fetch_add_local_seq(t)
        \/ load_local_seq(t)
        \/ transition_send(t)
        \/ transition_swap(t)

\* the operations of the dialog, called one after the other
Next ==
    \/ \E t \in {1} : Step(t)
    \/ \E t \in {1} : \E tag \in RemoteTags : update_remote_tag(t, tag)
    \/ drop_receiver

Spec == Init /\ [][Next]_vars

\* the operations of the dialog, called by two tasks at once
NextConcurrent == \E t \in Tasks : Step(t)

SpecConcurrent == Init /\ [][NextConcurrent]_vars

\* header lists drawn from HeaderLists; push_front and header_pop! applied
InitHeaders ==
    /\ new
    /\ headers \in HeaderLists
    /\ header_op = NoHeaderOp
    /\ NoLocks

NextHeaders ==
    \/ \E header \in Headers : headers_push_front(header)
    \/ \E kind \in HeaderKinds : headers_header_pop(kind)
    \/ headers_pop_pushed
    \/ do_request_header_pop

SpecHeaders == InitHeaders /\ [][NextHeaders]_vars

\* the operations that take mutexes, called by two tasks at once
NextLocks ==
    \E t \in Tasks :
        \/ \E op \in DOMAIN LockPaths : \E path \in LockPaths[op] : lock_call(t, op, path)
        \/ lock_acquire(t)
        \/ lock_release(t)
        \/ suspension_point(t)
        \/ lock_return(t)

SpecLocks == Init /\ [][NextLocks]_vars

\* ------------------------------------------------------------------- claims
\* the variants of a sequence of observations
Kinds(obs) == [i \in DOMAIN obs |-> obs[i].kind]

\* the step is one of task t
TaskStep(t) == tasks'[t] # tasks[t]

\* the step is the entry of task t into operation op
Enters(t, op) == TaskStep(t) /\ nops' = nops + 1 /\ tasks'[t].op = op

\* task t has returned from operation op
Returned(t, op) == tasks[t].op = op /\ tasks[t].pc = "done"

Challenges == {401, 407}

\* C1: an inbound request whose CSeq is below remote_seq takes the stale path of
\* handle(): no step of that path changes remote_seq, the persistent state or
\* the observer channel, the only reply is 500, and handle() returns Ok once the
\* reply is out (the error of reply() if it could not be sent).
C1_StaleRequestRejected ==
    [][\A t \in Tasks :
        /\ Enters(t, "handle") =>
            /\ tasks'[t].cseq < remote_seq => tasks'[t].pc = "h_reply500"
            /\ remote_seq' = remote_seq /\ state' = state /\ observed' = observed
        /\ (tasks[t].pc = "h_reply500" /\ TaskStep(t)) =>
            /\ remote_seq' = remote_seq /\ state' = state /\ observed' = observed
            /\ tasks'[t].pc = "done"
            /\ \/ tasks'[t].reply = 500 /\ tasks'[t].result = "Ok"
               \/ tasks'[t].reply = None /\ tasks'[t].result = "Err"]_vars

\* C1, its case: a Confirmed dialog has answered a stale request with 500
C1_Witness ==
    \E t \in Tasks :
        /\ Returned(t, "handle") /\ tasks[t].reply = 500 /\ tasks[t].result = "Ok"
        /\ tasks[t].cseq < remote_seq
        /\ state.kind = "Confirmed"

\* C2: once the persistent state is Terminated, no step replaces it with another
\* variant and no Trying, Early or Confirmed observation is published.
C2_TerminatedIsFinal ==
    [][state.kind = "Terminated" =>
        /\ state'.kind = "Terminated"
        /\ Len(observed') > Len(observed) =>
            observed'[Len(observed')].kind \notin {"Trying", "Early", "Confirmed"}]_vars

C4_EmittedStrictlyIncreasing ==
    \A i, j \in DOMAIN emitted : i < j => emitted[i] < emitted[j]

\* C5: every request cancel() sends (the first one and the authenticated retry)
\* has method CANCEL and the local_seq read at the call as its CSeq, and
\* local_seq keeps that value while cancel() runs and when it has returned.
C5_CancelKeepsLocalSeq ==
    \A t \in Tasks :
        tasks[t].op = "cancel" =>
            /\ local_seq = tasks[t].cseq
            /\ \A i \in DOMAIN tasks[t].sent :
                tasks[t].sent[i].method = "CANCEL" /\ tasks[t].sent[i].cseq = local_seq

\* C5, its case: cancel() has returned after a challenge and its retry
C5_Witness ==
    \E t \in Tasks :
        /\ Returned(t, "cancel") /\ tasks[t].result = "Ok"
        /\ Len(tasks[t].sent) = 2
        /\ tasks[t].sent[2].auth

\* C6: when process_invite has consumed 100, 180, 200 and returned Ok, the
\* channel holds exactly Calling, Trying, Early, Confirmed, the wire holds the
\* INVITE and one ACK (method ACK, the original URI, the headers of the 200), and
\* the returned id carries the to_tag of the 200, returned with that 200.
C6_HappyInvite ==
    \A t \in Tasks :
        (/\ Returned(t, "process_invite") /\ tasks[t].result = "Ok"
         /\ tasks[t].rx = <<100, 180, 200>>) =>
            LET resp == tasks[t].final_response
            IN  /\ Kinds(observed) = <<"Calling", "Trying", "Early", "Confirmed">>
                /\ observed[4].to_tag = resp.headers.to_tag
                /\ state = observed[4]
                /\ Len(tasks[t].sent) = 2
                /\ tasks[t].sent[1].method = "INVITE"
                /\ tasks[t].sent[2] = [method |-> "ACK", uri |-> OriginalUri,
                        cseq |-> 0, auth |-> FALSE, headers |-> resp.headers]
                /\ resp.status_code = 200
                /\ resp.headers.to_tag \in Tags
                /\ tasks[t].dialog_id = resp.headers.to_tag

\* C6, its case
C6_Witness ==
    \E t \in Tasks :
        /\ Returned(t, "process_invite") /\ tasks[t].result = "Ok"
        /\ tasks[t].rx = <<100, 180, 200>>

\* C7: with a credential, when process_invite has consumed a 401 or 407 and
\* then a 200 and returned Ok, it has sent one rebuilt INVITE, with the initial
\* CSeq plus one, local_seq is the initial CSeq plus one, the channel holds
\* Calling and Confirmed and nothing between, and the dialog is Confirmed.
C7_AuthOnceInvite ==
    \A t \in Tasks :
        (/\ Returned(t, "process_invite") /\ tasks[t].result = "Ok"
         /\ credential
         /\ \E c \in Challenges : tasks[t].rx = <<c, 200>>) =>
            /\ Len(tasks[t].sent) = 3
            /\ tasks[t].sent[1] = Request("INVITE", InitialCSeq, FALSE, NoHeaders)
            /\ tasks[t].sent[2] = Request("INVITE", InitialCSeq + 1, TRUE, NoHeaders)
            /\ tasks[t].sent[3].method = "ACK"
            /\ local_seq = InitialCSeq + 1
            /\ Kinds(observed) = <<"Calling", "Confirmed">>
            /\ state.kind = "Confirmed"

\* C7, its case
C7_Witness ==
    \E t \in Tasks :
        /\ Returned(t, "process_invite") /\ tasks[t].result = "Ok"
        /\ credential
        /\ tasks[t].rx = <<401, 200>>

\* a challenge was received at place j of rx after an earlier one at place i
SecondChallenge(rx, j) ==
    /\ rx[j] \in Challenges
    /\ \E i \in 1..(j - 1) : rx[i] \in Challenges

\* C8: with a credential, a second 401 or 407 is the last message
\* process_invite consumes; when it has returned Ok after one, the state is
\* Terminated with that status, one authenticated retry and no ACK were sent,
\* and final_response is None.
C8_AuthTwiceInvite ==
    \A t \in Tasks :
        (tasks[t].op = "process_invite" /\ credential) =>
            \A j \in DOMAIN tasks[t].rx :
                SecondChallenge(tasks[t].rx, j) =>
                    /\ j = Len(tasks[t].rx)
                    /\ tasks[t].pc \in {"t_send", "t_swap", "done"}
                    /\ \A i \in DOMAIN tasks[t].sent : tasks[t].sent[i].method # "ACK"
                    /\ Cardinality({i \in DOMAIN tasks[t].sent : tasks[t].sent[i].auth}) = 1
                    /\ (tasks[t].pc = "done" /\ tasks[t].result = "Ok") =>
                        /\ state = DialogState("Terminated", id.to_tag, tasks[t].rx[j])
                        /\ tasks[t].final_response = NoResp

\* C8, its case: 401, 401 consumed and process_invite has returned Ok
C8_Witness ==
    \E t \in Tasks :
        /\ Returned(t, "process_invite") /\ tasks[t].result = "Ok"
        /\ credential
        /\ tasks[t].rx = <<401, 401>>

\* no value occurs twice in the sequence
NoDuplicate(seq) == \A i, j \in DOMAIN seq : i # j => seq[i] # seq[j]

\* C9: no remote CSeq is handed to a method handler twice, and remote_seq never
\* decreases.
C9_AtMostOnceInOrder ==
    [][remote_seq' >= remote_seq /\ NoDuplicate(dispatched')]_vars

\* C10: when transition() finds the observer channel closed on a persistent
\* state, it returns the error and the state field holds the new state.
C10_ClosedChannelCommits ==
    [][\A t \in Tasks :
        (/\ tasks[t].pc = "t_send"
         /\ closed
         /\ tasks[t].arg.kind \notin {"Updated", "Notify", "Info"}
         /\ TaskStep(t)) =>
            /\ tasks'[t].result = "Err"
            /\ state' = tasks[t].arg]_vars

\* C11: when a send of process_invite or do_request fails (the first send, or
\* the send of the rebuilt transaction), the driver returns the error and the
\* persistent state is Terminated with no status code when it returns.
C11_SendFailureTerminates ==
    [][\A t \in Tasks :
        (/\ tasks[t].pc \in {"pi_send", "pi_auth", "dr_send", "dr_auth"}
         /\ TaskStep(t)
         /\ tasks'[t].pc = "done" /\ tasks'[t].result = "Err") =>
            state'.kind = "Terminated" /\ state'.code = None]_vars

\* the last status code of rx is that of a final response
FinalStatus(rx) == Len(rx) > 0 /\ rx[Len(rx)] >= 200

\* C12: bye() on a dialog that is not Confirmed returns at once: nothing sent,
\* nothing published, state and counters unchanged.  While bye() runs on a
\* Confirmed dialog, nothing is published and the state is not changed before a
\* final response has come, and what is published and stored after a final
\* response with status s is Terminated(s).
C12_ByeOnlyWhenConfirmed ==
    [][\A t \in Tasks :
        /\ (Enters(t, "bye") /\ state.kind # "Confirmed") =>
            /\ tasks'[t].pc = "done" /\ tasks'[t].sent = <<>>
            /\ UNCHANGED <<state, observed, local_seq, remote_seq>>
        /\ (/\ tasks[t].op = "bye" /\ TaskStep(t) /\ tasks[t].pc # "done"
            /\ ~(tasks[t].ret = "op_done" /\ ~FinalStatus(tasks[t].rx))) =>
            LET terminated == DialogState("Terminated", id.to_tag,
                                          tasks[t].rx[Len(tasks[t].rx)])
            IN  /\ observed' # observed =>
                    FinalStatus(tasks[t].rx) /\ observed' = Append(observed, terminated)
                /\ state' # state =>
                    FinalStatus(tasks[t].rx) /\ state' = terminated]_vars

\* C13: with a credential, when bye() has returned after a 401 or 407 that
\* followed an authenticated retry, it has returned Ok and the persistent state
\* is Terminated with the status of that challenge.
C13_ByeAuthExhausted ==
    \A t \in Tasks :
        (/\ Returned(t, "bye") /\ credential /\ ~closed
         /\ Len(tasks[t].rx) > 0
         /\ SecondChallenge(tasks[t].rx, Len(tasks[t].rx))) =>
            /\ tasks[t].result = "Ok"
            /\ state = DialogState("Terminated", id.to_tag,
                                   tasks[t].rx[Len(tasks[t].rx)])

\* C14: when handle() has returned from a request it dispatched on a Confirmed
\* dialog (observer listening): after a BYE the state is Terminated(None) and
\* the reply was 200; after an INFO the last observation is Info, the state is
\* Confirmed and the reply was 200; after any other method handle() has returned
\* an error, the only reply was 405 and the state is Confirmed.
C14_HandleInConfirmed ==
    \A t \in Tasks :
        (Returned(t, "handle") /\ tasks[t].method # "none") =>
            LET tk == tasks[t]
            IN  /\ (tk.method = "BYE" /\ tk.result = "Ok") =>
                    /\ state = DialogState("Terminated", id.to_tag, None)
                    /\ tk.reply = 200
                /\ (tk.method = "INFO" /\ tk.result = "Ok") =>
                    /\ observed[Len(observed)].kind = "Info"
                    /\ state.kind = "Confirmed"
                    /\ tk.reply = 200
                /\ tk.method \notin {"BYE", "INFO"} =>
                    /\ tk.result = "Err"
                    /\ tk.reply \in {405, None}
                    /\ state.kind = "Confirmed"

\* C15: over the steps of make_request called without a CSeq, remote_seq keeps
\* its value, local_seq advances by one, and the CSeq the request gets is the
\* advanced local_seq.
C15_MakeRequestUsesLocalSeq ==
    [][\A t \in Tasks :
        /\ (tasks[t].pc = "mr_add" /\ TaskStep(t)) =>
            remote_seq' = remote_seq /\ local_seq' = local_seq + 1
        /\ (tasks[t].pc = "mr_load" /\ TaskStep(t)) =>
            /\ remote_seq' = remote_seq /\ local_seq' = local_seq
            /\ tasks'[t].cseq = local_seq]_vars

\* C16: once the to_tag of the stored id is not empty, no step changes it.
C16_ToTagSetOnce ==
    [][id.to_tag # NoTag => id'.to_tag = id.to_tag]_vars

\* C17: when process_invite has returned Ok with a 200 carrying to_tag t, the
\* stored id has to_tag t; and every request bye() or info() gets from
\* make_request on a dialog confirmed with to_tag t carries t in its To header.
C17_ConfirmedTagStored ==
    /\ \A t \in Tasks :
        (/\ Returned(t, "process_invite") /\ tasks[t].result = "Ok"
         /\ tasks[t].final_response.status_code = 200) =>
            /\ tasks[t].dialog_id = tasks[t].final_response.headers.to_tag
            /\ id.to_tag = tasks[t].final_response.headers.to_tag
    /\ \A t \in Tasks : \A i \in DOMAIN observed :
        (tasks[t].op \in {"bye", "info"} /\ observed[i].kind = "Confirmed") =>
            \A j \in DOMAIN tasks[t].sent :
                ~tasks[t].sent[j].auth =>
                    tasks[t].sent[j].headers.to_tag = observed[i].to_tag

\* the persistent observations of a sequence of observations
Persistent(obs) == SelectSeq(obs, LAMBDA o : o.kind \notin {"Updated", "Notify", "Info"})

\* C18: the persistent observations are on the channel in the order in which
\* the state field is written; so, whenever no transition() is between its send
\* and its swap, the last persistent observation is the state.
C18_ObservedInSwapOrder ==
    (/\ Persistent(observed) # <<>>
     /\ \A t \in Tasks : tasks[t].pc # "t_swap") =>
        state = Persistent(observed)[Len(Persistent(observed))]

\* C19: transition() writes no value to the state field that it has not put on
\* the observer channel before.
C19_SentBeforeSwap ==
    [][state' # state => \E i \in DOMAIN observed : observed[i] = state']_vars

\* C19, its case: process_invite has confirmed the dialog and a reader of the
\* state field sees Confirmed
C19_Witness ==
    /\ state.kind = "Confirmed"
    /\ \E i \in DOMAIN observed : observed[i] = state
    /\ \E t \in Tasks : Returned(t, "process_invite") /\ tasks[t].result = "Ok"

\* the place of the first header of the kind in the list (0: there is none)
FirstOfKind(hs, kind) ==
    IF \E i \in DOMAIN hs : hs[i].kind = kind
        THEN CHOOSE i \in DOMAIN hs :
                hs[i].kind = kind /\ \A j \in 1..(i - 1) : hs[j].kind # kind
        ELSE 0

\* the list without the header at place i
WithoutPlace(hs, i) ==
    IF i = 0 THEN hs
    ELSE [j \in 1..(Len(hs) - 1) |-> IF j < i THEN hs[j] ELSE hs[j + 1]]

\* C20: header_pop! gives the list without its first header of the kind, every
\* other header at its place in the order; after push_front(h) it gives back
\* the list push_front was applied to; and do_request sends the request without
\* its first Route header, having taken the destination from that header.
C20_HeaderPopFirstOnly ==
    /\ header_op.op \in {"header_pop", "do_request"} =>
        headers = WithoutPlace(header_op.before, FirstOfKind(header_op.before, header_op.kind))
    /\ header_op.op = "push_front_pop" => headers = header_op.before
    /\ header_op.op = "do_request" =>
        /\ header_op.kind = "Route"
        /\ FirstOfKind(header_op.before, "Route") # 0 =>
            header_op.destination =
                header_op.before[FirstOfKind(header_op.before, "Route")].value

\* C20, its case: header_pop! was applied to a list whose first header of the
\* kind comes after another header and before a second header of the kind
C20_Witness ==
    /\ header_op.op \in {"header_pop", "do_request"}
    /\ \E i, j \in DOMAIN header_op.before :
        /\ 1 < i /\ i < j
        /\ i = FirstOfKind(header_op.before, header_op.kind)
        /\ header_op.before[j].kind = header_op.kind
    /\ Len(headers) = Len(header_op.before) - 1

\* the ACKs among the requests sent
Acks(sent) == {i \in DOMAIN sent : sent[i].method = "ACK"}

\* send_ack has failed: process_invite has returned the error after a 200
\* without an ACK on the wire
SendAckFailed(t) ==
    /\ Returned(t, "process_invite") /\ tasks[t].result = "Err"
    /\ FinalStatus(tasks[t].rx) /\ tasks[t].rx[Len(tasks[t].rx)] = 200
    /\ Acks(tasks[t].sent) = {}

\* no Confirmed on the channel or in the state field
NotConfirmed ==
    /\ state.kind # "Confirmed"
    /\ \A i \in DOMAIN observed : observed[i].kind # "Confirmed"

\* C21: process_invite puts an ACK on the wire only as its reaction to a 200,
\* and only one; Confirmed is published, and written to the state field, only
\* by a process_invite whose ACK is on the wire; and when send_ack has failed
\* there is no Confirmed observation and the state is not Confirmed.
C21_AckBeforeConfirmed ==
    [][/\ \A t \in Tasks :
            (/\ Len(tasks'[t].sent) > Len(tasks[t].sent)
             /\ Len(tasks'[t].sent) \in Acks(tasks'[t].sent)) =>
                /\ tasks[t].op = "process_invite" /\ tasks[t].pc = "pi_ack"
                /\ tasks[t].rx[Len(tasks[t].rx)] = 200
                /\ Acks(tasks[t].sent) = {}
                /\ Cardinality(Acks(tasks'[t].sent)) = 1
       /\ (\/ Len(observed') > Len(observed) /\ observed'[Len(observed')].kind = "Confirmed"
           \/ state'.kind = "Confirmed" /\ state.kind # "Confirmed") =>
            \E t \in Tasks :
                /\ tasks[t].op = "process_invite" /\ TaskStep(t)
                /\ Acks(tasks[t].sent) # {}
       /\ \A t \in Tasks : SendAckFailed(t)' => NotConfirmed']_vars

\* C21, its case: send_ack has failed after a 200
C21_Witness ==
    \E t \in Tasks : SendAckFailed(t) /\ ~closed /\ state.kind \in {"Calling", "Trying", "Early"}

\* the mutexes task t holds
Holds(t) == {m \in Mutexes : holder[m] = t}

\* task t waits for a guard that task u holds
WaitsFor(t, u) ==
    AtEvent(t) /\ Event(t).event = "lock" /\ holder[Event(t).on] = u

\* the order in which guards are nested
LockOrder == <<"id", "state", "to">>
Place(m) == CHOOSE i \in DOMAIN LockOrder : LockOrder[i] = m

\* C22: no task is at a suspension point, or returns, with a guard; no task
\* takes a mutex whose guard it holds; guards are nested in one order (id
\* before state before to); and no two tasks wait for each other.
C22_NoDeadlock ==
    /\ \A t \in Tasks :
        /\ (AtEvent(t) /\ Event(t).event = "await") => Holds(t) = {}
        /\ (running[t].op # "none" /\ ~AtEvent(t)) => Holds(t) = {}
        /\ running[t].op = "none" => Holds(t) = {}
        /\ ~WaitsFor(t, t)
        /\ (AtEvent(t) /\ Event(t).event = "lock") =>
            \A m \in Holds(t) : Place(m) < Place(Event(t).on)
    /\ \A t, u \in Tasks : ~(t # u /\ WaitsFor(t, u) /\ WaitsFor(u, t))

\* C22, its case: a task inside the transition() of do_request, holding the
\* guard of id, waits for the guard of state, which another task holds
C22_Witness ==
    \E t, u \in Tasks :
        /\ t # u
        /\ running[t].op = "do_request" /\ Holds(t) = {"id"}
        /\ WaitsFor(t, u) /\ Event(t).on = "state"
        /\ running[u].op \in {"transition", "handle"}

\* C23: no step takes the persistent state from Confirmed to anything but
\* Terminated.
C23_ConfirmedLeavesToTerminated ==
    [][state.kind = "Confirmed" => state'.kind \in {"Confirmed", "Terminated"}]_vars

\* C24: the channel never holds two Terminated observations, and no step
\* changes a Terminated state.
C24_TerminatedOnce ==
    [][/\ Cardinality({i \in DOMAIN observed' : observed'[i].kind = "Terminated"}) <= 1
       /\ state.kind = "Terminated" => state' = state]_vars

====
